---- MODULE Spec2Model ----
(***************************************************************************)
(* Matrix-multiplication benchmark (C/benchmark/Benchmark.c and            *)
(* C/src/matrix_mult.c): the multiply kernel, the CSV recorder and the     *)
(* driver main(), as a state machine.                                      *)
(*                                                                         *)
(* Conventions.                                                            *)
(*  - argv strings are sequences of one-character strings.  A path is the   *)
(*    same sequence run-length encoded: <<[c |-> "d", k |-> 3]>> is "ddd"; *)
(*    adjacent runs hold different characters, so equal strings have equal *)
(*    encodings.                                                           *)
(*  - The POSIX build is modelled (the #else branch, PATH_SEP '/').        *)
(*  - A double holding a small integer is exact, so matrix cells are       *)
(*    integers: the cell written by fill_random is rand() itself, i.e. the *)
(*    value in units of 1/RAND_MAX.                                        *)
(*  - What the environment decides (whether an fopen, a mkdir or a malloc  *)
(*    succeeds, the bytes malloc hands out, a memory sample, the seed) is  *)
(*    a parameter of the operator and is drawn with \E by the action.      *)
(*  - A store or load through a null pointer faults: the process is killed *)
(*    (SIGSEGV) and the model goes to pc = "crashed".                      *)
(***************************************************************************)
EXTENDS Integers, Sequences, FiniteSets, TLC

VARIABLES
    pc,         \* position in main()
    argc,       \* number of argv entries (program name included)
    argv,       \* argv[1], argv[2] as strings (<<>> when absent)
    environ,    \* value of RESULTS_CSV, or Unset
    n, runs,    \* main's locals after atoi
    rng,        \* state of the rand() generator
    clock,      \* wall clock, in ticks
    csv_path,   \* main's csv_path buffer
    fs,         \* file system: path -> sequence of lines, for the files that exist
    dirs,       \* directories that exist
    fs0,        \* the file system when the process started (history)
    A, B, C,    \* the three matrices
    live,       \* matrices allocated and not yet freed
    r, total,   \* loop index and accumulated elapsed time
    mem_before, mem_after,  \* the loop body's two memory samples
    stdout, stderr, exit_code,
    log,        \* history: the calls main() made, in order
    uninit_read, \* history: some cell was read before it was ever assigned
    null_malloc, \* history: some malloc call returned NULL
    kin         \* history: the arguments of the latest matrix_multiply call

vars == <<pc, argc, argv, environ, n, runs, rng, clock, csv_path, fs, dirs, fs0,
          A, B, C, live, r, total, mem_before, mem_after, stdout, stderr, exit_code,
          log, uninit_read, null_malloc, kin>>

----------------------------------------------------------------------------
(* Bounds of the model *)

MaxN == 2
MaxRuns == 2
RandMax == 7
LongSeg == 250
MaxCoef == 2
MaxOff == 5

(* Program constant: sizeof(csv_path) *)
CsvPathSize == 1024

StartTimes == {1, 2}
Garbage == {9}
MemSamples == {0, 1}
Unset == <<[c |-> "NULL", k |-> 0]>>

Min(a, b) == IF a < b THEN a ELSE b
Max(a, b) == IF a > b THEN a ELSE b

----------------------------------------------------------------------------
(* Strings and numbers *)

Digits == <<"0", "1", "2", "3", "4", "5", "6", "7", "8", "9">>
IsDigit(c) == \E d \in 1..10 : Digits[d] = c
DigitVal(c) == (CHOOSE d \in 1..10 : Digits[d] = c) - 1

RECURSIVE AtoiDigits(_, _, _)
AtoiDigits(s, i, acc) ==
    IF i <= Len(s) /\ IsDigit(s[i])
    THEN AtoiDigits(s, i + 1, acc * 10 + DigitVal(s[i]))
    ELSE acc

(* atoi: optional sign, then the longest run of digits; 0 when there is none *)
atoi(s) ==
    IF Len(s) > 0 /\ s[1] = "-" THEN 0 - AtoiDigits(s, 2, 0)
    ELSE IF Len(s) > 0 /\ s[1] = "+" THEN AtoiDigits(s, 2, 0)
    ELSE AtoiDigits(s, 1, 0)

(* Run-length encoded strings *)
RleAppend(s, ch, cnt) ==
    IF cnt <= 0 THEN s
    ELSE IF Len(s) > 0 /\ s[Len(s)].c = ch
    THEN [s EXCEPT ![Len(s)].k = @ + cnt]
    ELSE Append(s, [c |-> ch, k |-> cnt])

RECURSIVE Rle(_)
Rle(seq) ==
    IF Len(seq) = 0 THEN <<>>
    ELSE RleAppend(Rle(SubSeq(seq, 1, Len(seq) - 1)), seq[Len(seq)], 1)

RECURSIVE StrLenFrom(_, _)
StrLenFrom(s, i) == IF i > Len(s) THEN 0 ELSE s[i].k + StrLenFrom(s, i + 1)
strlen(s) == StrLenFrom(s, 1)

(* the first m characters of s *)
RECURSIVE TakeFrom(_, _, _)
TakeFrom(s, i, m) ==
    IF i > Len(s) \/ m <= 0 THEN <<>>
    ELSE IF s[i].k <= m THEN <<s[i]>> \o TakeFrom(s, i + 1, m - s[i].k)
    ELSE <<[c |-> s[i].c, k |-> m]>>
Take(s, m) == TakeFrom(s, 1, m)

(* snprintf(out, outsz, "%s", s): at most outsz - 1 characters are stored *)
snprintf(outsz, s) == Take(s, Min(strlen(s), outsz - 1))

DefaultPath ==
    Rle(<<".", ".", "/", "d", "a", "t", "a", "/",
          "r", "e", "s", "u", "l", "t", "s", ".", "c", "s", "v">>)
CustomPath == Rle(<<"o", "u", "t", "/", "r", ".", "c", "s", "v">>)
(* a path of five components of LongSeg characters each *)
LongPath ==
    <<[c |-> "a", k |-> LongSeg], [c |-> "/", k |-> 1],
      [c |-> "b", k |-> LongSeg], [c |-> "/", k |-> 1],
      [c |-> "c", k |-> LongSeg], [c |-> "/", k |-> 1],
      [c |-> "d", k |-> LongSeg], [c |-> "/", k |-> 1],
      [c |-> "e", k |-> LongSeg]>>

(* resolve_csv_path: RESULTS_CSV when set and non-empty, else the default *)
resolve_csv_path(env, outsz) ==
    IF env # Unset /\ strlen(env) > 0
    THEN snprintf(outsz, env)
    ELSE snprintf(outsz, DefaultPath)

----------------------------------------------------------------------------
(* File system *)

HeaderText == "language,matrix_size,run_index,elapsed_sec,memory_used_mb,timestamp_iso"
HeaderLine == [header |-> HeaderText]

Row(lang, size, idx, elapsed, mem, ts) ==
    [language |-> lang, matrix_size |-> size, run_index |-> idx,
     elapsed_sec |-> elapsed, memory_used_mb |-> mem, timestamp_iso |-> ts]

Exists(f, path) == path \in DOMAIN f
Put(f, path, lines) ==
    [q \in DOMAIN f \cup {path} |-> IF q = path THEN lines ELSE f[q]]

(* position of the last '/' or '\' of path, 0 when there is none *)
LastSep(path) ==
    LET S == {i \in 1..Len(path) : path[i].c = "/" \/ path[i].c = "\\"}
    IN  IF S = {} THEN 0
        ELSE strlen(SubSeq(path, 1, CHOOSE i \in S : \A j \in S : j <= i))
ParentOf(path) == Take(path, LastSep(path) - 1)
ParentExists(d, path) == LastSep(path) = 0 \/ ParentOf(path) \in d

(* ensure_parent_dir: copy path into a malloc'ed buffer, cut it at the last
   separator and mkdir that, errors ignored.  tmpOK is malloc's answer (a
   null buffer makes strcpy fault), mk whether the mkdir call succeeds.
   Result is [dirs, fault]. *)
ensure_parent_dir(d, path, tmpOK, mk) ==
    IF strlen(path) = 0 THEN [dirs |-> d, fault |-> FALSE]
    ELSE IF ~tmpOK THEN [dirs |-> d, fault |-> TRUE]
    ELSE IF LastSep(path) = 0 THEN [dirs |-> d, fault |-> FALSE]
    ELSE IF mk /\ ParentOf(path) # <<>>
    THEN [dirs |-> d \cup {ParentOf(path)}, fault |-> FALSE]
    ELSE [dirs |-> d, fault |-> FALSE]

(* fopen: whether a stream is returned; ok is the environment's part
   (permissions, descriptors), the rest is what the mode requires *)
fopen_ok(f, d, path, mode, ok) ==
    IF mode = "r" THEN ok /\ Exists(f, path)
    ELSE ok /\ ParentExists(d, path)

(* seeded fault: append mode truncates like write mode *)
fopen_fs_trunc(f, path, mode) ==
    IF mode = "w" \/ mode = "a" THEN Put(f, path, <<>>) ELSE f

(* the file system after a successful fopen in the given mode *)
fopen_fs(f, path, mode) ==
    IF mode = "w" THEN Put(f, path, <<>>)
    ELSE IF mode = "a" /\ ~Exists(f, path) THEN Put(f, path, <<>>)
    ELSE f

Err(what, path) == [what |-> what, path |-> path]

(* ensure_csv: result is [fs, dirs, stderr, wrote, failed, fault]; rOK / wOK
   are the environment's answers to the two fopen calls *)
ensure_csv(f, d, err, path, tmpOK, mk, rOK, wOK) ==
    LET pd == ensure_parent_dir(d, path, tmpOK, mk)
        d1 == pd.dirs
        same == [fs |-> f, dirs |-> d1, stderr |-> err, wrote |-> FALSE,
                 failed |-> FALSE, fault |-> pd.fault]
    IN  IF pd.fault THEN same
        ELSE IF fopen_ok(f, d1, path, "r", rOK) THEN same
        ELSE IF ~fopen_ok(f, d1, path, "w", wOK)
        THEN [same EXCEPT !.stderr = err \o <<Err("fopen header", path)>>,
                          !.failed = TRUE]
        ELSE [same EXCEPT !.fs = Put(fopen_fs(f, path, "w"), path, <<HeaderLine>>),
                          !.wrote = TRUE]

(* seeded fault: a failed open is not reported *)
append_csv_silent(f, d, err, path, size, idx, elapsed, mem, ts, aOK) ==
    IF ~fopen_ok(f, d, path, "a", aOK)
    THEN [fs |-> f, stderr |-> err, failed |-> TRUE]
    ELSE LET f1 == fopen_fs(f, path, "a")
         IN  [fs |-> Put(f1, path, Append(f1[path], Row("C", size, idx, elapsed, mem, ts))),
              stderr |-> err, failed |-> FALSE]

(* append_csv: result is [fs, stderr, failed] *)
append_csv(f, d, err, path, size, idx, elapsed, mem, ts, aOK) ==
    IF ~fopen_ok(f, d, path, "a", aOK)
    THEN [fs |-> f, stderr |-> err \o <<Err("fopen append", path)>>, failed |-> TRUE]
    ELSE LET f1 == fopen_fs(f, path, "a")
         IN  [fs |-> Put(f1, path, Append(f1[path], Row("C", size, idx, elapsed, mem, ts))),
              stderr |-> err, failed |-> FALSE]

----------------------------------------------------------------------------
(* Matrices.  A matrix is [base, rows, val, init]: whether the row-pointer
   array is non-null, which row pointers are non-null, the cells, and
   (history) which cells have been assigned since malloc. *)

Idx(nn) == 0..(nn - 1)

Matrix(baseOK, nullRows, g, nn) ==
    [base |-> baseOK,
     rows |-> [i \in Idx(nn) |-> i \notin nullRows],
     val  |-> [i \in Idx(nn) |-> [j \in Idx(nn) |-> g]],
     init |-> [i \in Idx(nn) |-> [j \in Idx(nn) |-> FALSE]]]

NullMatrix == Matrix(FALSE, {}, 0, 0)

Store(M, i, j, v) ==
    [M EXCEPT !.val[i][j] = v, !.init[i][j] = TRUE]

(* allocate_matrix: baseOK / nullRows are malloc's answers, g the bytes the
   rows hold.  With n > 0 and a null row-pointer array, M[0] = ... faults. *)
allocate_matrix(nn, baseOK, nullRows, g) ==
    [M |-> Matrix(baseOK, nullRows, g, nn),
     fault |-> nn > 0 /\ ~baseOK]

(* rand(): a linear congruential generator over 0..RAND_MAX *)
srand(seed) == seed % (RandMax + 1)
rand(s) == (s * 5 + 3) % (RandMax + 1)

(* fill_random: M[i][j] = rand(), row by row; st is [M, rng, fault] *)
RECURSIVE FillLoop(_, _, _, _)
FillLoop(st, nn, i, j) ==
    IF st.fault \/ i >= nn THEN st
    ELSE IF j >= nn THEN FillLoop(st, nn, i + 1, 0)
    ELSE IF ~st.M.rows[i] THEN [st EXCEPT !.fault = TRUE]
    ELSE FillLoop([M |-> Store(st.M, i, j, rand(st.rng)),
                   rng |-> rand(st.rng), fault |-> FALSE], nn, i, j + 1)

fill_random(M, nn, s) == FillLoop([M |-> M, rng |-> s, fault |-> FALSE], nn, 0, 0)

(* the k loop of matrix_multiply: acc is [s, fault, uninit] *)
RECURSIVE DotLoop(_, _, _, _, _, _, _)
DotLoop(Am, Bm, i, j, k, nn, acc) ==
    IF acc.fault \/ k >= nn THEN acc
    ELSE IF ~Am.rows[i] \/ ~Bm.rows[k] THEN [acc EXCEPT !.fault = TRUE]
    ELSE DotLoop(Am, Bm, i, j, k + 1, nn,
                 [s |-> acc.s + Am.val[i][k] * Bm.val[k][j],
                  fault |-> FALSE,
                  uninit |-> acc.uninit \/ ~Am.init[i][k] \/ ~Bm.init[k][j]])

(* the i and j loops: st is [C, fault, uninit] *)
RECURSIVE MulLoop(_, _, _, _, _, _)
MulLoop(Am, Bm, st, nn, i, j) ==
    IF st.fault \/ i >= nn THEN st
    ELSE IF j >= nn THEN MulLoop(Am, Bm, st, nn, i + 1, 0)
    ELSE LET d == DotLoop(Am, Bm, i, j, 0, nn,
                          [s |-> 0, fault |-> FALSE, uninit |-> st.uninit])
         IN  IF d.fault \/ ~st.C.rows[i]
             THEN [st EXCEPT !.fault = TRUE, !.uninit = d.uninit]
             ELSE MulLoop(Am, Bm,
                          [C |-> Store(st.C, i, j, d.s), fault |-> FALSE,
                           uninit |-> d.uninit], nn, i, j + 1)

(* seeded fault: C[i][j] += s instead of C[i][j] = s *)
matrix_multiply_acc(Am, Bm, Cm, nn) ==
    LET st == MulLoop(Am, Bm, [C |-> Cm, fault |-> FALSE, uninit |-> FALSE], nn, 0, 0)
    IN  [A |-> Am, B |-> Bm,
         C |-> [st.C EXCEPT !.val = [i \in Idx(nn) |-> [j \in Idx(nn) |->
                                        Cm.val[i][j] + st.C.val[i][j]]]],
         fault |-> st.fault, uninit |-> st.uninit]

(* seeded fault: the product is also stored into A *)
matrix_multiply_scribble(Am, Bm, Cm, nn) ==
    LET st == MulLoop(Am, Bm, [C |-> Cm, fault |-> FALSE, uninit |-> FALSE], nn, 0, 0)
    IN  [A |-> [Am EXCEPT !.val = st.C.val], B |-> Bm, C |-> st.C,
         fault |-> st.fault, uninit |-> st.uninit]

(* matrix_multiply (Benchmark.c): result is [A, B, C, fault, uninit] *)
matrix_multiply(Am, Bm, Cm, nn) ==
    LET st == MulLoop(Am, Bm, [C |-> Cm, fault |-> FALSE, uninit |-> FALSE], nn, 0, 0)
    IN  [A |-> Am, B |-> Bm, C |-> st.C, fault |-> st.fault, uninit |-> st.uninit]

(* matrix_multiply (matrix_mult.c): the same three loops *)
matrix_multiply_lib(Am, Bm, Cm, nn) == matrix_multiply(Am, Bm, Cm, nn)

(* get_memory_used_mb: the resident set size the system reports, 0 when
   /proc/self/statm cannot be read *)
get_memory_used_mb(sample) == sample

(* now_seconds / time: the wall clock *)
now_seconds(c) == c

----------------------------------------------------------------------------
(* The driver: main() *)

Ev(name, arg) == [ev |-> name, arg |-> arg]

NArgs == {<<"-", "1">>, <<"x">>} \cup {<<Digits[d + 1]>> : d \in 0..MaxN}
RunArgs == {<<"-", "1">>, <<"x">>} \cup {<<Digits[d + 1]>> : d \in 0..MaxRuns}
EnvValues == {Unset, <<>>, CustomPath, LongPath}

(* results files left by earlier benchmark processes: the default one and
   the one env names (as given and as resolve_csv_path stores it) *)
PriorPaths(env) ==
    {DefaultPath, resolve_csv_path(env, CsvPathSize)}
    \cup (IF env # Unset /\ strlen(env) > 0 THEN {env} ELSE {})
PriorLines == <<HeaderLine, Row("Python", 2, 1, 1, 0, 0)>>
EmptyFS == [p \in {} |-> <<>>]
PriorFS(env) == [p \in PriorPaths(env) |-> PriorLines]
PriorDirs(env) == {ParentOf(p) : p \in PriorPaths(env)}

Init ==
    /\ pc = "start"
    /\ argc \in 1..3
    /\ argv \in {<<a1, a2>> : a1 \in (IF argc >= 2 THEN NArgs ELSE {<<>>}),
                              a2 \in (IF argc >= 3 THEN RunArgs ELSE {<<>>})}
    /\ environ \in EnvValues
    /\ \E prior \in BOOLEAN :
        /\ fs = IF prior THEN PriorFS(environ) ELSE EmptyFS
        /\ dirs = IF prior THEN PriorDirs(environ) ELSE {}
    /\ fs0 = fs
    /\ clock \in StartTimes
    /\ n = 0 /\ runs = 0 /\ rng = 1 /\ r = 0 /\ total = 0
    /\ csv_path = <<>>
    /\ A = NullMatrix /\ B = NullMatrix /\ C = NullMatrix
    /\ live = {}
    /\ stdout = <<>> /\ stderr = <<>> /\ exit_code = -1
    /\ log = <<>>
    /\ uninit_read = FALSE
    /\ null_malloc = FALSE
    /\ mem_before = 0 /\ mem_after = 0
    /\ kin = [A |-> NullMatrix, B |-> NullMatrix, C |-> NullMatrix]

(* seeded fault: argc < 2 *)
TooFewArgs_2(ac) == ac < 2

(* line 138 *)
TooFewArgs(ac) == ac < 3

(* lines 138-141 *)
CheckArgs ==
    /\ pc = "start"
    /\ IF TooFewArgs(argc)
       THEN /\ stdout' = Append(stdout, [usage |-> TRUE])
            /\ exit_code' = 1
            /\ pc' = "exit"
       ELSE /\ pc' = "parse"
            /\ UNCHANGED <<stdout, exit_code>>
    /\ UNCHANGED <<mem_before, mem_after, null_malloc, kin, argc, argv, environ, n, runs, rng, clock, csv_path, fs, dirs, fs0,
                   A, B, C, live, r, total, stderr, log, uninit_read>>

(* lines 142-144 *)
ParseArgs ==
    /\ pc = "parse"
    /\ n' = atoi(argv[1])
    /\ runs' = atoi(argv[2])
    /\ rng' = srand(now_seconds(clock))
    /\ pc' = "resolve"
    /\ UNCHANGED <<mem_before, mem_after, null_malloc, kin, argc, argv, environ, clock, csv_path, fs, dirs, fs0, A, B, C, live,
                   r, total, stdout, stderr, exit_code, log, uninit_read>>

(* lines 146-147 *)
ResolvePath ==
    /\ pc = "resolve"
    /\ csv_path' = resolve_csv_path(environ, CsvPathSize)
    /\ log' = Append(log, Ev("resolve_csv_path", 0))
    /\ pc' = "ensure"
    /\ UNCHANGED <<mem_before, mem_after, null_malloc, kin, argc, argv, environ, n, runs, rng, clock, fs, dirs, fs0, A, B, C, live,
                   r, total, stdout, stderr, exit_code, uninit_read>>

(* lines 148-149 *)
EnsureCsv ==
    /\ pc = "ensure"
    /\ \E tmpOK \in BOOLEAN, mk \in BOOLEAN, rOK \in BOOLEAN, wOK \in BOOLEAN :
        LET res == ensure_csv(fs, dirs, stderr, csv_path, tmpOK, mk, rOK, wOK)
        IN  /\ fs' = res.fs
            /\ dirs' = res.dirs
            /\ stderr' = res.stderr
            /\ log' = log \o <<Ev("ensure_csv", 0)>>
                          \o (IF res.failed THEN <<Ev("open_failed", 0)>> ELSE <<>>)
                          \o (IF res.wrote THEN <<Ev("header_written", 0)>> ELSE <<>>)
            /\ null_malloc' = res.fault
            /\ stdout' = IF res.fault THEN stdout
                         ELSE Append(stdout, [csv_path |-> csv_path])
            /\ pc' = IF res.fault THEN "crashed" ELSE "build"
    /\ UNCHANGED <<mem_before, mem_after, kin, argc, argv, environ, n, runs, rng, clock,
                   csv_path, fs0, A, B, C, live, r, total, exit_code, uninit_read>>

MallocRows(nn) == {{}} \cup {{i} : i \in Idx(nn)}

(* the calls of lines 152-156, in order *)
BuildCalls == <<"allocA", "allocB", "allocC", "fillA", "fillB">>

(* lines 152-156 run from call number k with st = [A, B, C, rng, live, fault,
   calls]; m gives malloc's answers for each matrix.  A fault ends the
   process inside the faulting call. *)
RECURSIVE BuildFrom(_, _, _, _)
BuildFrom(st, k, nn, m) ==
    IF st.fault \/ k > Len(BuildCalls) THEN st
    ELSE LET name == IF k \in {1, 4} THEN "A" ELSE IF k \in {2, 5} THEN "B" ELSE "C"
             al == allocate_matrix(nn, m[name].baseOK, m[name].nullRows, m[name].g)
             fl == fill_random(st[name], nn, st.rng)
         IN  IF k <= 3
             THEN BuildFrom([st EXCEPT ![name] = IF al.fault THEN @ ELSE al.M,
                                       !.live = IF al.fault THEN @ ELSE @ \cup {name},
                                       !.fault = al.fault,
                                       !.calls = k], k + 1, nn, m)
             ELSE BuildFrom([st EXCEPT ![name] = IF fl.fault THEN @ ELSE fl.M,
                                       !.rng = IF fl.fault THEN @ ELSE fl.rng,
                                       !.fault = fl.fault,
                                       !.calls = k], k + 1, nn, m)

BuildLog(calls) ==
    [k \in 1..calls |-> Ev(IF k <= 3 THEN "allocate_matrix" ELSE "fill_random", k)]

(* malloc's answers for one allocate_matrix call: the row-pointer array is
   null, or it is not and at most one row is *)
MallocAnswers(nn) ==
    {[baseOK |-> FALSE, nullRows |-> {}, g |-> g] : g \in Garbage}
    \cup {[baseOK |-> TRUE, nullRows |-> R, g |-> g] : R \in MallocRows(nn), g \in Garbage}

(* lines 152-156: allocate A, B, C, then fill A and B *)
BuildMatrices ==
    /\ pc = "build"
    /\ \E mA \in MallocAnswers(n), mB \in MallocAnswers(n), mC \in MallocAnswers(n) :
        LET st == BuildFrom([A |-> A, B |-> B, C |-> C, rng |-> rng, live |-> live,
                             fault |-> FALSE, calls |-> 0], 1, n,
                            [A |-> mA, B |-> mB, C |-> mC])
        IN  /\ A' = st.A /\ B' = st.B /\ C' = st.C
            /\ rng' = st.rng
            /\ live' = st.live
            /\ log' = log \o BuildLog(st.calls)
            /\ null_malloc' = \E k \in 1..Min(st.calls, 3) :
                                  LET a == <<mA, mB, mC>>[k]
                                  IN  ~a.baseOK \/ a.nullRows # {}
            /\ pc' = IF st.fault THEN "crashed" ELSE "banner"
    /\ UNCHANGED <<mem_before, mem_after, kin, argc, argv, environ, n, runs, clock, csv_path, fs, dirs, fs0,
                   r, total, stdout, stderr, exit_code, uninit_read>>

(* lines 158-163: the banner, total = 0.0, r = 1 *)
Banner ==
    /\ pc = "banner"
    /\ stdout' = Append(stdout, [banner |-> n, banner_runs |-> runs])
    /\ total' = 0
    /\ r' = 1
    /\ pc' = "loop"
    /\ UNCHANGED <<mem_before, mem_after, null_malloc, kin, argc, argv, environ, n, runs, rng, clock, csv_path, fs, dirs, fs0,
                   A, B, C, live, stderr, exit_code, log, uninit_read>>

(* seeded fault: the delta is not clamped *)
MemUsed_noclamp(before, after) == after - before

(* lines 171-172 *)
MemUsed(before, after) ==
    IF after - before < 0 THEN 0 ELSE after - before

(* seeded fault: r < runs *)
LoopCond_lt(rv, rn) == rv < rn

(* line 163: the loop condition *)
LoopCond(rv, rn) == rv <= rn

(* lines 163-177: one iteration of the run loop.  The clock advances one
   tick while the kernel runs. *)
RunIter ==
    /\ pc = "loop"
    /\ LoopCond(r, runs)
    /\ \E mb \in MemSamples, ma \in MemSamples, aOK \in BOOLEAN :
        LET t0 == now_seconds(clock)
            K == matrix_multiply(A, B, C, n)
            t1 == now_seconds(clock + 1)
            elapsed == t1 - t0
            mem_used == MemUsed(get_memory_used_mb(mb), get_memory_used_mb(ma))
            res == append_csv(fs, dirs, stderr, csv_path, n, r, elapsed, mem_used,
                              now_seconds(clock + 1), aOK)
        IN  /\ mem_before' = get_memory_used_mb(mb)
            /\ kin' = [A |-> A, B |-> B, C |-> C]
            /\ uninit_read' = (uninit_read \/ K.uninit)
            /\ IF K.fault
               THEN /\ pc' = "crashed"
                    /\ log' = Append(log, Ev("matrix_multiply", r))
                    /\ UNCHANGED <<A, B, C, clock, fs, stderr, stdout, total, r,
                                   mem_after>>
               ELSE /\ A' = K.A /\ B' = K.B /\ C' = K.C
                    /\ mem_after' = get_memory_used_mb(ma)
                    /\ clock' = clock + 1
                    /\ total' = total + elapsed
                    /\ fs' = res.fs
                    /\ stderr' = res.stderr
                    /\ stdout' = Append(stdout, [run |-> r, elapsed |-> elapsed,
                                                 memory_used |-> mem_used])
                    /\ log' = log \o <<Ev("matrix_multiply", r), Ev("append_csv", r)>>
                                  \o (IF res.failed THEN <<Ev("open_failed", r)>>
                                      ELSE <<Ev("row_written", r)>>)
                                  \o <<Ev("print_run", r)>>
                    /\ r' = r + 1
                    /\ pc' = "loop"
    /\ UNCHANGED <<argc, argv, environ, n, runs, rng, csv_path, dirs, fs0, live,
                   exit_code, null_malloc>>

(* lines 177-186: loop exit, the average, free_matrix x 3, return 0 *)
Teardown ==
    /\ pc = "loop"
    /\ ~LoopCond(r, runs)
    /\ stdout' = Append(stdout, [average_num |-> total, average_den |-> runs])
    /\ live' = live \ {"A", "B", "C"}
    /\ log' = log \o <<Ev("print_average", 0), Ev("free_matrix", 0),
                       Ev("free_matrix", 0), Ev("free_matrix", 0)>>
    /\ exit_code' = 0
    /\ pc' = "exit"
    /\ UNCHANGED <<mem_before, mem_after, null_malloc, kin, argc, argv, environ, n, runs, rng, clock, csv_path, fs, dirs, fs0,
                   A, B, C, r, total, stderr, uninit_read>>

Next ==
    \/ CheckArgs
    \/ ParseArgs
    \/ ResolvePath
    \/ EnsureCsv
    \/ BuildMatrices
    \/ Banner
    \/ RunIter
    \/ Teardown

Spec == Init /\ [][Next]_vars

----------------------------------------------------------------------------
(* The kernel alone: matrix_multiply applied to arbitrary n x n inputs *)

(* an initialised matrix with cell (i, j) = a * i + b * j + c *)
GenMatrix(nn, a, b, c) ==
    [base |-> TRUE, rows |-> [i \in Idx(nn) |-> TRUE],
     val |-> [i \in Idx(nn) |-> [j \in Idx(nn) |-> a * i + b * j + c]],
     init |-> [i \in Idx(nn) |-> [j \in Idx(nn) |-> TRUE]]]

KernelInputs(nn) ==
    {GenMatrix(nn, a, b, c) : a \in 0..MaxCoef, b \in 0..MaxCoef, c \in 0..MaxOff}

(* what the output matrix may hold before the call *)
KernelOutputs(nn) ==
    {Matrix(TRUE, {}, g, nn) : g \in {0} \cup Garbage} \cup {GenMatrix(nn, 1, 2, 3)}

KernelInit ==
    /\ pc = "kernel_call"
    /\ n \in 1..MaxN
    /\ A \in KernelInputs(n)
    /\ B \in KernelInputs(n)
    /\ C \in KernelOutputs(n)
    /\ kin = [A |-> A, B |-> B, C |-> C]
    /\ argc = 0 /\ argv = <<>> /\ environ = Unset
    /\ fs = EmptyFS /\ dirs = {} /\ fs0 = EmptyFS
    /\ clock = 0 /\ runs = 0 /\ rng = 1 /\ r = 0 /\ total = 0
    /\ csv_path = <<>>
    /\ live = {"A", "B", "C"}
    /\ stdout = <<>> /\ stderr = <<>> /\ exit_code = -1
    /\ log = <<>>
    /\ uninit_read = FALSE
    /\ null_malloc = FALSE
    /\ mem_before = 0 /\ mem_after = 0

KernelApply(K) ==
    /\ pc = "kernel_call"
    /\ ~K.fault
    /\ A' = K.A /\ B' = K.B /\ C' = K.C
    /\ uninit_read' = K.uninit
    /\ pc' = "kernel_ret"
    /\ UNCHANGED <<argc, argv, environ, n, runs, rng, clock, csv_path, fs, dirs, fs0,
                   live, r, total, mem_before, mem_after, stdout, stderr, exit_code,
                   null_malloc, kin>>

(* C/benchmark/Benchmark.c *)
KernelBenchmark ==
    /\ KernelApply(matrix_multiply(A, B, C, n))
    /\ log' = <<Ev("matrix_multiply", 1)>>

(* C/src/matrix_mult.c *)
KernelLib ==
    /\ KernelApply(matrix_multiply_lib(A, B, C, n))
    /\ log' = <<Ev("matrix_multiply_lib", 1)>>

KernelNext ==
    \/ KernelBenchmark
    \/ KernelLib

SpecKernel == KernelInit /\ [][KernelNext]_vars

----------------------------------------------------------------------------
(* Properties *)

NumRuns == IF runs > 0 THEN runs ELSE 0
IsPrefix(s, t) == Len(s) <= Len(t) /\ SubSeq(t, 1, Len(s)) = s
HasEv(name, arg) == \E i \in 1..Len(log) : log[i] = Ev(name, arg)
CountEv(name) == Cardinality({i \in 1..Len(log) : log[i].ev = name})
ExitedOk == pc = "exit" /\ exit_code = 0

IsRunLine(l) == "run" \in DOMAIN l
RunLines == SelectSeq(stdout, IsRunLine)
IsCRow(l) == "language" \in DOMAIN l /\ l.language = "C"
CRows == IF Exists(fs, csv_path) THEN SelectSeq(fs[csv_path], IsCRow) ELSE <<>>

Untouched(p) ==
    /\ Exists(fs, p) <=> Exists(fs0, p)
    /\ Exists(fs, p) => fs[p] = fs0[p]

Mat2(a, b, c, d) ==
    [i \in 0..1 |-> [j \in 0..1 |->
        IF i = 0 THEN (IF j = 0 THEN a ELSE b) ELSE (IF j = 0 THEN c ELSE d)]]

RECURSIVE SumK(_, _, _, _, _)
SumK(X, Y, i, j, k) ==
    IF k < 0 THEN 0 ELSE SumK(X, Y, i, j, k - 1) + X[i][k] * Y[k][j]

(* C1: after matrix_multiply(A, B, C, n) returns, every cell C[i][j] is the
   sum over k of A[i][k] * B[k][j] of the matrices passed in, whatever C
   held before; with A = [[1,2],[3,4]] and B = [[5,6],[7,8]] the result is
   [[19,22],[43,50]]. *)
C1_Product ==
    pc = "kernel_ret" =>
        /\ \A i \in Idx(n), j \in Idx(n) :
              /\ C.val[i][j] = SumK(kin.A.val, kin.B.val, i, j, n - 1)
              /\ C.init[i][j]
        /\ (n = 2 /\ kin.A.val = Mat2(1, 2, 3, 4) /\ kin.B.val = Mat2(5, 6, 7, 8))
              => C.val = Mat2(19, 22, 43, 50)

C1_Witness ==
    /\ pc = "kernel_ret"
    /\ n = 2
    /\ kin.A.val = Mat2(1, 2, 3, 4)
    /\ kin.B.val = Mat2(5, 6, 7, 8)
    /\ kin.C.val = Mat2(9, 9, 9, 9)
    /\ C.val = Mat2(19, 22, 43, 50)

(* C2: ensure_csv on a path whose file already exists (written by an earlier
   call or an earlier process) leaves the file system as it was: the header
   is not written again and no row is lost. *)
C2_EnsureKeepsFile ==
    (pc = "build" /\ Exists(fs0, csv_path)) => fs = fs0

(* C3: on a path with no file beforehand and with every open succeeding, a
   process that exits normally leaves the header line followed by one row
   per run, 1 + k lines for run-count k (no row when k is not positive). *)
C3_RowCount ==
    (ExitedOk /\ ~Exists(fs0, csv_path) /\ ~(\E i \in 1..Len(log) : log[i].ev = "open_failed"))
        => /\ Exists(fs, csv_path)
           /\ Len(fs[csv_path]) = 1 + NumRuns
           /\ fs[csv_path][1] = HeaderLine
           /\ \A i \in 1..NumRuns :
                 /\ IsCRow(fs[csv_path][i + 1])
                 /\ fs[csv_path][i + 1].run_index = i
                 /\ fs[csv_path][i + 1].matrix_size = n

C3_Witness ==
    /\ ExitedOk
    /\ ~Exists(fs0, csv_path)
    /\ ~(\E i \in 1..Len(log) : log[i].ev = "open_failed")
    /\ runs = 2
    /\ Len(fs[csv_path]) = 3

(* C4: with fewer than two positional arguments the program prints the usage
   line, exits with code 1 and does nothing else: no file or directory is
   created or changed, no matrix is allocated, no call is made. *)
C4_Usage ==
    argc < 3 =>
        /\ pc \in {"start", "exit"}
        /\ fs = fs0
        /\ dirs = (IF fs0 = EmptyFS THEN {} ELSE PriorDirs(environ))
        /\ live = {}
        /\ log = <<>>
        /\ stderr = <<>>
        /\ pc = "start" => stdout = <<>>
        /\ pc = "exit" => (exit_code = 1 /\ stdout = <<[usage |-> TRUE]>>)

C4_Witness ==
    /\ argc = 1
    /\ pc = "exit"
    /\ exit_code = 1
    /\ stdout = <<[usage |-> TRUE]>>

(* C5: when n <= 0 or a malloc fails, allocate_matrix does not return to
   main and the run loop is not entered. *)
C5_AllocFatal ==
    (pc \in {"banner", "loop"} \/ ExitedOk) => (n > 0 /\ ~null_malloc)

(* C6: a failed open in ensure_csv or append_csv is reported on stderr with
   the path, only that write is skipped, and the process goes on: every run
   1..runs calls the kernel and prints its line and the process ends with
   exit code 0; the only other ends are the usage error and the fault that
   follows a null malloc. *)
C6_IoNonFatal ==
    /\ Len(stderr) = CountEv("open_failed")
    /\ \A i \in 1..Len(stderr) : stderr[i].path = csv_path
    /\ HasEv("open_failed", 0) =>
          (stderr[1].what = "fopen header" /\ ~HasEv("header_written", 0))
    /\ (pc = "build" /\ HasEv("open_failed", 0)) => fs = fs0
    /\ \A k \in 1..NumRuns : HasEv("open_failed", k) =>
          /\ Err("fopen append", csv_path) \in {stderr[i] : i \in 1..Len(stderr)}
          /\ ~HasEv("row_written", k)
          /\ HasEv("print_run", k)
    /\ Len(CRows) = CountEv("row_written")
    /\ \A i \in 1..Len(CRows) : HasEv("row_written", CRows[i].run_index)
    /\ pc = "crashed" => null_malloc
    /\ ExitedOk =>
          /\ Len(RunLines) = NumRuns
          /\ \A k \in 1..NumRuns :
                HasEv("matrix_multiply", k) /\ RunLines[k].run = k
    /\ (pc = "exit" /\ exit_code # 0) => (exit_code = 1 /\ argc < 3)

C6_Witness ==
    /\ ExitedOk
    /\ runs = 2
    /\ HasEv("open_failed", 0)
    /\ HasEv("open_failed", 1)
    /\ HasEv("row_written", 2)
    /\ Len(RunLines) = 2

(* C7: the memory_used_mb of a run, in its progress line and in its CSV row,
   is max(0, mem_after - mem_before) of that run's two samples, and is never
   negative in any line or row. *)
C7_MemClamp ==
    /\ \A i \in 1..Len(RunLines) : RunLines[i].memory_used >= 0
    /\ \A i \in 1..Len(CRows) : CRows[i].memory_used_mb >= 0
    /\ (pc \in {"loop", "exit"} /\ r >= 2) =>
          /\ Len(RunLines) = r - 1
          /\ RunLines[r - 1].memory_used = Max(0, mem_after - mem_before)
          /\ HasEv("row_written", r - 1) =>
                /\ CRows[Len(CRows)].run_index = r - 1
                /\ CRows[Len(CRows)].memory_used_mb = Max(0, mem_after - mem_before)

C7_Witness ==
    /\ pc = "loop"
    /\ r = 2
    /\ mem_before = 1
    /\ mem_after = 0
    /\ HasEv("row_written", 1)
    /\ CRows[Len(CRows)].memory_used_mb = 0
    /\ RunLines[1].memory_used = 0

(* C8: once the path is resolved it is RESULTS_CSV when that is set and
   non-empty, and then no other file is created or changed; it is the
   default path otherwise. *)
C8_PathResolution ==
    (pc \notin {"start", "parse", "resolve"} /\ ~(pc = "exit" /\ exit_code = 1)) =>
        IF environ # Unset /\ strlen(environ) > 0
        THEN /\ csv_path = environ
             /\ \A p \in (DOMAIN fs \cup DOMAIN fs0 \cup {DefaultPath}) \ {environ} :
                    Untouched(p)
        ELSE csv_path = DefaultPath

(* C9: main makes its calls in one fixed order: resolve, ensure_csv, the
   three allocations, the two fills, then for r = 1..runs the kernel, the
   append and the progress line of run r, then the average and the three
   frees; nothing is repeated and nothing is reordered. *)
CallNames ==
    {"resolve_csv_path", "ensure_csv", "allocate_matrix", "fill_random",
     "matrix_multiply", "append_csv", "print_run", "print_average", "free_matrix"}
IsCall(e) == e.ev \in CallNames
Calls == SelectSeq(log, IsCall)
SetupCalls ==
    <<Ev("resolve_csv_path", 0), Ev("ensure_csv", 0),
      Ev("allocate_matrix", 1), Ev("allocate_matrix", 2), Ev("allocate_matrix", 3),
      Ev("fill_random", 4), Ev("fill_random", 5)>>
RunCalls(rn) ==
    [i \in 1..(3 * rn) |->
        Ev(<<"matrix_multiply", "append_csv", "print_run">>[((i - 1) % 3) + 1],
           ((i - 1) \div 3) + 1)]
TeardownCalls ==
    <<Ev("print_average", 0), Ev("free_matrix", 0), Ev("free_matrix", 0),
      Ev("free_matrix", 0)>>
ExpectedCalls(rn) == SetupCalls \o RunCalls(rn) \o TeardownCalls

C9_Sequential ==
    /\ IsPrefix(Calls, ExpectedCalls(NumRuns))
    /\ pc = "loop" => Calls = SetupCalls \o RunCalls(r - 1)
    /\ ExitedOk => (Calls = ExpectedCalls(NumRuns) /\ live = {})
    /\ pc \in {"banner", "loop"} => live = {"A", "B", "C"}

C9_Witness ==
    /\ ExitedOk
    /\ runs = 2
    /\ n = 2
    /\ Calls = ExpectedCalls(2)

FrozenStep ==
    pc \in {"banner", "loop"} =>
        /\ A' = A
        /\ B' = B
        /\ (pc' = "loop" /\ r >= 2) => C'.val = C.val

(* C10: once A and B are filled no step changes them; from the second run on
   the kernel leaves C as the previous run left it; and no cell is read
   before it has been assigned. *)
C10_InputsFrozen == [](~uninit_read) /\ [][FrozenStep]_vars

C10_Witness ==
    /\ ExitedOk
    /\ runs = 2
    /\ n = 2
    /\ kin.A = A /\ kin.B = B
    /\ kin.C.val = C.val
    /\ \A i \in Idx(n), j \in Idx(n) : C.init[i][j] /\ A.init[i][j] /\ B.init[i][j]

====
